---- MODULE Spec2Model ----
(***************************************************************************)
(* Model of the task queue (src/queue/db.rs), of the dispatch loop and of  *)
(* the cancel / clear / enqueue entry points (src/main.rs).                *)
(*                                                                         *)
(* The store is the SQLite table `tasks`: a sequence of rows in rowid      *)
(* (insertion) order.  Every TaskQueue method is one SQL statement and is  *)
(* modelled as an operator from the rows (and its arguments) to the new    *)
(* rows, the Result and the returned value.  The daemon and the cancel     *)
(* command issue several statements each; other processes may run between  *)
(* two of them, so each statement is one step.                             *)
(***************************************************************************)
EXTENDS Integers, Sequences, FiniteSets, TLC

\* ---------------------------------------------------------------- bounds
MaxTasks == 2       \* number of enqueue calls explored
MaxTime == 1        \* latest clock reading explored (in half seconds)

\* ------------------------------------------------------ Option<T>, NULL
None == <<>>
Some(x) == <<x>>
NULL == <<>>

\* --------------------------------------------------------- TaskStatus
TaskStatus == {"Queued", "Running", "Completed", "Failed", "Cancelled"}

as_str(s) ==
    CASE s = "Queued" -> "queued"
      [] s = "Running" -> "running"
      [] s = "Completed" -> "completed"
      [] s = "Failed" -> "failed"
      [] s = "Cancelled" -> "cancelled"

\* faulty variant of from_str, to show that C37 tells it from it: the
\* capitalised names are accepted too
from_str_accepts_names(s) ==
    CASE s = "queued" \/ s = "Queued" -> Some("Queued")
      [] s = "running" \/ s = "Running" -> Some("Running")
      [] s = "completed" \/ s = "Completed" -> Some("Completed")
      [] s = "failed" \/ s = "Failed" -> Some("Failed")
      [] s = "cancelled" \/ s = "Cancelled" -> Some("Cancelled")
      [] OTHER -> None

from_str(s) ==
    CASE s = "queued" -> Some("Queued")
      [] s = "running" -> Some("Running")
      [] s = "completed" -> Some("Completed")
      [] s = "failed" -> Some("Failed")
      [] s = "cancelled" -> Some("Cancelled")
      [] OTHER -> None

\* ------------------------------------------------------------ timestamps
\* The clock counts half seconds.  to_rfc3339 prints the seconds and, only
\* when it is not zero, the fraction (chrono's SecondsFormat::AutoSi), then
\* the offset; the date and the rest of the offset are the same in every
\* timestamp and are left out.  Text is a sequence of character codes.
Digit(d) == 48 + d
Dot == 46
Plus == 43

to_rfc3339(t) ==
    LET secs == t \div 2
    IN  <<Digit(secs \div 10), Digit(secs % 10)>>
        \o (IF t % 2 = 1 THEN <<Dot, Digit(5), Digit(0), Digit(0)>> ELSE <<>>)
        \o <<Plus>>

parse_from_rfc3339(s) ==
    LET secs == (s[1] - 48) * 10 + (s[2] - 48)
    IN  2 * secs + (IF s[3] = Dot THEN 1 ELSE 0)

\* SQLite compares TEXT values byte by byte (BINARY collation).
RECURSIVE TextLess(_, _)
TextLess(a, b) ==
    IF b = <<>> THEN FALSE
    ELSE IF a = <<>> THEN TRUE
    ELSE IF Head(a) # Head(b) THEN Head(a) < Head(b)
    ELSE TextLess(Tail(a), Tail(b))

\* ------------------------------------------------------------ inputs
\* the (command, model) pairs the user queues, in turn
EnqueueArgs == << <<"run the tests", None>>, <<"fix the bug", Some("opus")>> >>
\* messages of the two errors ClaudeExecutor::execute returns
ExecErrors == { "Failed to execute Claude CLI",
                "Claude CLI exited with non-zero status" }
\* the executor failure of the runs explored: the CLI starts and exits
\* with a non-zero status
ExitError == "Claude CLI exited with non-zero status"
\* task ids a user may pass to `faster cancel`
CancelIds == 1..MaxTasks

VARIABLES
    tasks,        \* rows of table `tasks`, in rowid order
    now,          \* Utc::now()
    nextId,       \* ids handed out so far (nanoid: fresh on every call)
    dpc,          \* run_daemon: where the daemon process is
    dtask,        \* run_daemon: `task`, the Task it dequeued
    cpc,          \* cancel_task: where the cancel command is
    cid,          \* cancel_task: `task_id`
    dexit,        \* run_daemon: the Err it returned with, "none" otherwise
    everRunning,  \* history: ids of the stored tasks whose status has been Running
    peeked,       \* history: the Task the last dequeue of a daemon returned,
                  \* while it is neither set to Running nor cancelled
    callers,      \* the concurrent callers of enqueue: where each one is,
                  \* and its `id` and `now`
    transcript,   \* IntentProcessor::process: `transcript`
    cmd,          \* IntentProcessor::process: the Command returned
    loop2         \* a second run_daemon process: where it is, and its `task`

vars == <<tasks, now, nextId, dpc, dtask, cpc, cid, dexit, everRunning,
          peeked, callers, transcript, cmd, loop2>>

\* the variables of the callers of enqueue, of the intent processor and of
\* the second daemon
pvars == <<callers, transcript, cmd, loop2>>

\* ------------------------------------------------------------ rows
RowIds(rows) == { rows[i].id : i \in 1..Len(rows) }

\* the Task a SELECTed row is converted to (db.rs, the struct literal)
RowToTask(row) ==
    [ id |-> row.id,
      command |-> row.command,
      status |-> from_str(row.status)[1],
      model |-> row.model,
      created_at |-> parse_from_rfc3339(row.created_at),
      started_at |-> IF row.started_at = NULL THEN None
                     ELSE Some(parse_from_rfc3339(row.started_at)),
      completed_at |-> IF row.completed_at = NULL THEN None
                       ELSE Some(parse_from_rfc3339(row.completed_at)),
      error |-> row.error ]

\* ORDER BY created_at ASC: insertion sort of the scanned rows; SQLite
\* evaluates ORDER BY .. LIMIT with a sequence-numbered sort index, so rows
\* with equal keys stay in scan (rowid) order.
RECURSIVE InsertAsc(_, _)
InsertAsc(sorted, row) ==
    IF sorted = <<>> THEN <<row>>
    ELSE IF TextLess(row.created_at, Head(sorted).created_at)
         THEN <<row>> \o sorted
         ELSE <<Head(sorted)>> \o InsertAsc(Tail(sorted), row)

RECURSIVE OrderByCreatedAtAsc(_)
OrderByCreatedAtAsc(rows) ==
    IF rows = <<>> THEN <<>>
    ELSE InsertAsc(OrderByCreatedAtAsc(SubSeq(rows, 1, Len(rows) - 1)),
                   rows[Len(rows)])

IsQueuedRow(row) == row.status = as_str("Queued")

\* ------------------------------------------------------ TaskQueue methods
\* each returns [rows: the table afterwards, result, value]

\* faulty variant of enqueue, to show that C11 tells it from it: the model
\* override is not bound, the column stays NULL
enqueue_without_model(rows, id, command, model, t) ==
    [ rows |-> Append(rows,
                 [ id |-> id, command |-> command,
                   status |-> as_str("Queued"), model |-> NULL,
                   created_at |-> to_rfc3339(t),
                   started_at |-> NULL, completed_at |-> NULL,
                   error |-> NULL ]),
      result |-> "Ok",
      value |-> id ]

enqueue(rows, id, command, model, t) ==
    [ rows |-> Append(rows,
                 [ id |-> id, command |-> command,
                   status |-> as_str("Queued"), model |-> model,
                   created_at |-> to_rfc3339(t),
                   started_at |-> NULL, completed_at |-> NULL,
                   error |-> NULL ]),
      result |-> "Ok",
      value |-> id ]

\* faulty variants of dequeue, to show that C1 and C2 tell them from it:
\* one takes the newest Queued row (ORDER BY created_at DESC), the other
\* marks the row it returns as Running
dequeue_newest(rows) ==
    LET sel == OrderByCreatedAtAsc(SelectSeq(rows, IsQueuedRow))
    IN  [ rows |-> rows,
          result |-> "Ok",
          value |-> IF sel = <<>> THEN None
                    ELSE Some(RowToTask(sel[Len(sel)])) ]

dequeue_pop(rows) ==
    LET sel == OrderByCreatedAtAsc(SelectSeq(rows, IsQueuedRow))
    IN  [ rows |-> [ i \in 1..Len(rows) |->
                     IF sel # <<>> /\ rows[i].id = sel[1].id
                     THEN [rows[i] EXCEPT !.status = as_str("Running")]
                     ELSE rows[i] ],
          result |-> "Ok",
          value |-> IF sel = <<>> THEN None ELSE Some(RowToTask(sel[1])) ]

\* faulty variant of dequeue, to show that C35 tells it from it: among rows
\* with equal created_at the one inserted last comes first
dequeue_last_inserted_of_ties(rows) ==
    LET queued == SelectSeq(rows, IsQueuedRow)
        sel == OrderByCreatedAtAsc([ i \in 1..Len(queued) |->
                                       queued[Len(queued) + 1 - i] ])
    IN  [ rows |-> rows,
          result |-> "Ok",
          value |-> IF sel = <<>> THEN None ELSE Some(RowToTask(sel[1])) ]

dequeue(rows) ==
    LET sel == OrderByCreatedAtAsc(SelectSeq(rows, IsQueuedRow))
    IN  [ rows |-> rows,
          result |-> "Ok",
          value |-> IF sel = <<>> THEN None ELSE Some(RowToTask(sel[1])) ]

\* faulty variant of update_status, to show that C36 tells it from it: the
\* UPDATE has no WHERE id = ?
update_status_without_where(rows, id, status, t) ==
    [ rows |-> [ i \in 1..Len(rows) |->
                 IF status = "Running"
                 THEN [rows[i] EXCEPT !.status = as_str(status),
                                      !.started_at = to_rfc3339(t)]
                 ELSE IF status = "Completed" \/ status = "Failed"
                      THEN [rows[i] EXCEPT !.status = as_str(status),
                                           !.completed_at = to_rfc3339(t)]
                 ELSE [rows[i] EXCEPT !.status = as_str(status)] ],
      result |-> "Ok",
      value |-> <<>> ]

\* faulty variant of update_status, to show that C12 tells it from it: the
\* Completed / Failed branch stamps started_at as well
update_status_restamps_started(rows, id, status, t) ==
    [ rows |-> [ i \in 1..Len(rows) |->
                 IF rows[i].id # id THEN rows[i]
                 ELSE IF status = "Running"
                      THEN [rows[i] EXCEPT !.status = as_str(status),
                                           !.started_at = to_rfc3339(t)]
                 ELSE IF status = "Completed" \/ status = "Failed"
                      THEN [rows[i] EXCEPT !.status = as_str(status),
                                           !.started_at = to_rfc3339(t),
                                           !.completed_at = to_rfc3339(t)]
                 ELSE [rows[i] EXCEPT !.status = as_str(status)] ],
      result |-> "Ok",
      value |-> <<>> ]

\* faulty variant of update_status, to show that C9 tells it from it:
\* started_at is written for every status but Completed and Failed
update_status_always_started(rows, id, status, t) ==
    [ rows |-> [ i \in 1..Len(rows) |->
                 IF rows[i].id # id THEN rows[i]
                 ELSE IF status = "Completed" \/ status = "Failed"
                      THEN [rows[i] EXCEPT !.status = as_str(status),
                                           !.completed_at = to_rfc3339(t)]
                 ELSE [rows[i] EXCEPT !.status = as_str(status),
                                      !.started_at = to_rfc3339(t)] ],
      result |-> "Ok",
      value |-> <<>> ]

update_status(rows, id, status, t) ==
    [ rows |-> [ i \in 1..Len(rows) |->
                 IF rows[i].id # id THEN rows[i]
                 ELSE IF status = "Running"
                      THEN [rows[i] EXCEPT !.status = as_str(status),
                                           !.started_at = to_rfc3339(t)]
                 ELSE IF status = "Completed" \/ status = "Failed"
                      THEN [rows[i] EXCEPT !.status = as_str(status),
                                           !.completed_at = to_rfc3339(t)]
                 ELSE [rows[i] EXCEPT !.status = as_str(status)] ],
      result |-> "Ok",
      value |-> <<>> ]

\* faulty variant of fail, to show that C13 tells it from it: completed_at
\* is not written
fail_without_completed_at(rows, id, error, t) ==
    [ rows |-> [ i \in 1..Len(rows) |->
                 IF rows[i].id # id THEN rows[i]
                 ELSE [rows[i] EXCEPT !.status = as_str("Failed"),
                                      !.error = Some(error)] ],
      result |-> "Ok",
      value |-> <<>> ]

fail(rows, id, error, t) ==
    [ rows |-> [ i \in 1..Len(rows) |->
                 IF rows[i].id # id THEN rows[i]
                 ELSE [rows[i] EXCEPT !.status = as_str("Failed"),
                                      !.completed_at = to_rfc3339(t),
                                      !.error = Some(error)] ],
      result |-> "Ok",
      value |-> <<>> ]

get(rows, id) ==
    LET sel == SelectSeq(rows, LAMBDA r : r.id = id)
    IN  [ rows |-> rows,
          result |-> "Ok",
          value |-> IF sel = <<>> THEN None ELSE Some(RowToTask(sel[1])) ]

\* ORDER BY created_at DESC: the rows with the larger key first; SQLite sorts
\* the scanned rows with a temporary b-tree, and rows with equal keys stay in
\* scan (rowid) order, as they do for ASC.
RECURSIVE InsertDesc(_, _)
InsertDesc(sorted, row) ==
    IF sorted = <<>> THEN <<row>>
    ELSE IF TextLess(Head(sorted).created_at, row.created_at)
         THEN <<row>> \o sorted
         ELSE <<Head(sorted)>> \o InsertDesc(Tail(sorted), row)

RECURSIVE OrderByCreatedAtDesc(_)
OrderByCreatedAtDesc(rows) ==
    IF rows = <<>> THEN <<>>
    ELSE InsertDesc(OrderByCreatedAtDesc(SubSeq(rows, 1, Len(rows) - 1)),
                    rows[Len(rows)])

list(rows) ==
    LET sorted == OrderByCreatedAtDesc(rows)
    IN  [ rows |-> rows,
          result |-> "Ok",
          value |-> [ i \in 1..Len(sorted) |-> RowToTask(sorted[i]) ] ]

\* faulty variant of IsClearedRow, to show that C14 tells it from it: Failed
\* tasks are deleted too
IsClearedRow_or_failed(row) ==
    row.status \in {as_str("Completed"), as_str("Cancelled"), as_str("Failed")}

IsClearedRow(row) ==
    row.status \in {as_str("Completed"), as_str("Cancelled")}

clear_completed(rows) ==
    [ rows |-> SelectSeq(rows, LAMBDA r : ~IsClearedRow(r)),
      result |-> "Ok",
      value |-> Len(SelectSeq(rows, IsClearedRow)) ]

\* ------------------------------------------------- sqlx: `.await?`
\* Every statement is awaited with `?`: it either ran (Ok, with the rows and
\* the value of r) or it failed, and then no row is changed (a statement is
\* atomic in SQLite) and the method returns the error.
StorageOutcomes == {"Ok", "StorageError"}

sqlx_await(io, rows, r) ==
    IF io = "Ok" THEN r
    ELSE [rows |-> rows, result |-> "StorageError", value |-> None]

\* ------------------------------------------------------------ history
RunningIds(rows) ==
    { rows[i].id : i \in { j \in 1..Len(rows) : rows[j].status = as_str("Running") } }

\* ------------------------------------------------------------ Init
\* the callers of the concurrent enqueue calls (test_concurrent_operations
\* spawns one task per call)
MaxCallers == 3
Callers == 1..MaxCallers
IdleCaller == [pc |-> "idle", id |-> 0, now |-> 0]

\* a daemon process that is not running
StoppedLoop == [pc |-> "stopped", task |-> None]

\* an empty store, no process started
StoreInit ==
    /\ tasks = <<>>
    /\ now = 0
    /\ nextId = 1
    /\ dpc = "stopped"
    /\ dtask = None
    /\ dexit = "none"
    /\ cpc = "idle"
    /\ cid = 0
    /\ everRunning = {}
    /\ peeked = None

Init ==
    /\ StoreInit
    /\ callers = [c \in Callers |-> IdleCaller]
    /\ transcript = <<>>
    /\ cmd = None
    /\ loop2 = StoppedLoop

\* Utc::now(): a reading is the reading before it or a later one (the wall
\* clock is taken not to be set back while the program runs)
Clock == { t \in {now, now + 1} : t <= MaxTime }

\* ------------------------------------------------- main.rs queue_command
queue_command ==
    /\ nextId <= MaxTasks
    /\ \E t \in Clock :
         LET a == EnqueueArgs[((nextId - 1) % Len(EnqueueArgs)) + 1]
         IN  /\ tasks' = enqueue(tasks, nextId, a[1], a[2], t).rows
             /\ now' = t
    /\ nextId' = nextId + 1
    /\ UNCHANGED <<dpc, dtask, dexit, cpc, cid, everRunning, peeked>>
    /\ UNCHANGED pvars

\* --------------------------------------------------- main.rs run_daemon
DaemonStart ==
    /\ dpc = "stopped"
    /\ dpc' = "dequeue"
    /\ dtask' = None
    /\ dexit' = "none"
    /\ UNCHANGED <<tasks, now, nextId, cpc, cid, everRunning, peeked>>
    /\ UNCHANGED pvars

\* faulty variant of DaemonDequeue, to show that C20 tells it from it: the
\* row returned is claimed (set to running) by the dequeue itself
DaemonDequeue_claims(io) ==
    /\ dpc = "dequeue"
    /\ \E r \in { sqlx_await(io, tasks, dequeue_pop(tasks)) } :
           /\ tasks' = r.rows
           /\ dtask' = r.value
           /\ dpc' = IF r.result # "Ok" THEN "stopped"
                     ELSE IF r.value = None THEN "sleep" ELSE "mark_running"
           /\ dexit' = IF r.result # "Ok" THEN r.result ELSE "none"
           /\ peeked' = IF r.result # "Ok" THEN peeked ELSE r.value
    /\ UNCHANGED <<now, nextId, cpc, cid, everRunning>>
    /\ UNCHANGED pvars

\* queue.dequeue().await? : Some(task), None, or Err and the daemon returns
DaemonDequeue(io) ==
    /\ dpc = "dequeue"
    /\ \E r \in { sqlx_await(io, tasks, dequeue(tasks)) } :
           /\ tasks' = r.rows
           /\ dtask' = r.value
           /\ dpc' = IF r.result # "Ok" THEN "stopped"
                     ELSE IF r.value = None THEN "sleep" ELSE "mark_running"
           /\ dexit' = IF r.result # "Ok" THEN r.result ELSE "none"
           /\ peeked' = IF r.result # "Ok" THEN peeked ELSE r.value
    /\ UNCHANGED <<now, nextId, cpc, cid, everRunning>>
    /\ UNCHANGED pvars

\* faulty variant of DaemonSleep, to show that C19 tells it from it: the
\* loop does not come back from the sleep
DaemonSleep_never_wakes ==
    /\ dpc = "sleep"
    /\ dpc' = "sleep"
    /\ UNCHANGED <<tasks, now, nextId, dtask, dexit, cpc, cid,
                   everRunning, peeked>>
    /\ UNCHANGED pvars

\* tokio::time::sleep(1s), then the next iteration
DaemonSleep ==
    /\ dpc = "sleep"
    /\ dpc' = "dequeue"
    /\ UNCHANGED <<tasks, now, nextId, dtask, dexit, cpc, cid,
                   everRunning, peeked>>
    /\ UNCHANGED pvars

\* faulty variant of DaemonMarkRunning, to show that C18 tells it from it:
\* the Result of update_status is dropped and the executor is started
DaemonMarkRunning_ignores_error(io) ==
    /\ dpc = "mark_running"
    /\ \E t \in Clock :
       \E r \in { sqlx_await(io, tasks, update_status(tasks, dtask[1].id, "Running", t)) } :
           /\ now' = t
           /\ tasks' = r.rows
           /\ dpc' = "execute"
           /\ dexit' = "none"
           /\ everRunning' = everRunning \cup RunningIds(r.rows)
           /\ peeked' = IF r.result # "Ok" THEN peeked ELSE None
    /\ UNCHANGED <<nextId, dtask, cpc, cid>>
    /\ UNCHANGED pvars

\* queue.update_status(&task.id, TaskStatus::Running).await?
DaemonMarkRunning(io) ==
    /\ dpc = "mark_running"
    /\ \E t \in Clock :
       \E r \in { sqlx_await(io, tasks, update_status(tasks, dtask[1].id, "Running", t)) } :
           /\ now' = t
           /\ tasks' = r.rows
           /\ dpc' = IF r.result # "Ok" THEN "stopped" ELSE "execute"
           /\ dexit' = IF r.result # "Ok" THEN r.result ELSE "none"
           /\ everRunning' = everRunning \cup RunningIds(r.rows)
           /\ peeked' = IF r.result # "Ok" THEN peeked ELSE None
    /\ UNCHANGED <<nextId, dtask, cpc, cid>>
    /\ UNCHANGED pvars

\* executor.execute(..) returned Ok(_): update_status(.., Completed).  The
\* executor touches no state of the model, so its return and the write that
\* follows it are one step; while dpc = "execute" the executor is running.
DaemonCompleted(io) ==
    /\ dpc = "execute"
    /\ \E t \in Clock :
       \E r \in { sqlx_await(io, tasks, update_status(tasks, dtask[1].id, "Completed", t)) } :
           /\ now' = t
           /\ tasks' = r.rows
           /\ dpc' = IF r.result # "Ok" THEN "stopped" ELSE "dequeue"
           /\ dexit' = IF r.result # "Ok" THEN r.result ELSE "none"
           /\ everRunning' = everRunning \cup RunningIds(r.rows)
    /\ dtask' = None
    /\ UNCHANGED <<nextId, cpc, cid, peeked>>
    /\ UNCHANGED pvars

\* faulty variant of DaemonFailed, to show that C17 tells it from it: the
\* executor's error is propagated with `?` after it is recorded
DaemonFailed_then_returns(io) ==
    /\ dpc = "execute"
    /\ \E t \in Clock :
         \E r \in { sqlx_await(io, tasks, fail(tasks, dtask[1].id, ExitError, t)) } :
             /\ now' = t
             /\ tasks' = r.rows
             /\ dpc' = "stopped"
             /\ dexit' = IF r.result # "Ok" THEN r.result ELSE "none"
             /\ everRunning' = everRunning \cup RunningIds(r.rows)
    /\ dtask' = None
    /\ UNCHANGED <<nextId, cpc, cid, peeked>>
    /\ UNCHANGED pvars

\* executor.execute(..) returned Err(e): fail(.., e.to_string())
DaemonFailed(io) ==
    /\ dpc = "execute"
    /\ \E t \in Clock :
         \E r \in { sqlx_await(io, tasks, fail(tasks, dtask[1].id, ExitError, t)) } :
             /\ now' = t
             /\ tasks' = r.rows
             /\ dpc' = IF r.result # "Ok" THEN "stopped" ELSE "dequeue"
             /\ dexit' = IF r.result # "Ok" THEN r.result ELSE "none"
             /\ everRunning' = everRunning \cup RunningIds(r.rows)
    /\ dtask' = None
    /\ UNCHANGED <<nextId, cpc, cid, peeked>>
    /\ UNCHANGED pvars

\* the daemon process is killed, at any point of the loop ("Kill the daemon
\* to stop it" is the only way to stop a running task)
DaemonStop ==
    /\ dpc # "stopped"
    /\ dpc' = "stopped"
    /\ dtask' = None
    /\ UNCHANGED <<tasks, now, nextId, dexit, cpc, cid, everRunning,
                   peeked>>
    /\ UNCHANGED pvars

\* -------------------------------------------------- main.rs cancel_task
\* queue.get(task_id).await? and the test of task.status
CancelGet(id) ==
    /\ cpc = "idle"
    /\ LET r == get(tasks, id)
       IN  /\ tasks' = r.rows
           /\ cpc' = IF r.value = None THEN "idle"
                     ELSE IF r.value[1].status = "Running" THEN "idle"
                     ELSE "update"
           /\ cid' = IF cpc' = "update" THEN id ELSE 0
    /\ UNCHANGED <<now, nextId, dpc, dtask, dexit, everRunning, peeked>>
    /\ UNCHANGED pvars

\* queue.update_status(task_id, TaskStatus::Cancelled).await?
CancelUpdate ==
    /\ cpc = "update"
    /\ \E t \in Clock :
       LET r == update_status(tasks, cid, "Cancelled", t)
       IN  /\ now' = t
           /\ tasks' = r.rows
           /\ everRunning' = everRunning \cup RunningIds(r.rows)
    /\ peeked' = IF peeked # None /\ peeked[1].id = cid THEN None ELSE peeked
    /\ cpc' = "idle"
    /\ cid' = 0
    /\ UNCHANGED <<nextId, dpc, dtask, dexit>>
    /\ UNCHANGED pvars

\* ---------------------------------------------- main.rs clear_completed
ClearCompleted ==
    /\ tasks' = clear_completed(tasks).rows
    /\ tasks' # tasks
    /\ everRunning' = everRunning \cap RowIds(tasks')
    /\ UNCHANGED <<now, nextId, dpc, dtask, dexit, cpc, cid, peeked>>
    /\ UNCHANGED pvars

Next ==
    \/ queue_command
    \/ DaemonStart
    \/ DaemonDequeue("Ok")
    \/ DaemonSleep
    \/ DaemonMarkRunning("Ok")
    \/ DaemonCompleted("Ok")
    \/ DaemonFailed("Ok")
    \/ DaemonStop
    \/ \E id \in CancelIds : CancelGet(id)
    \/ CancelUpdate
    \/ ClearCompleted

Spec == Init /\ [][Next]_vars

\* the task ids passed to `faster cancel` in the runs explored for liveness
LiveCancelIds == {1}

\* One daemon that is started and never killed, no storage error, and every
\* executor run returns: each step of the loop is taken once it can be.
DaemonStep ==
    \/ DaemonStart
    \/ DaemonDequeue("Ok")
    \/ DaemonSleep
    \/ DaemonMarkRunning("Ok")
    \/ DaemonCompleted("Ok")
    \/ DaemonFailed("Ok")

NextLive ==
    \/ queue_command
    \/ DaemonStart
    \/ DaemonDequeue("Ok")
    \/ DaemonSleep
    \/ DaemonMarkRunning("Ok")
    \/ DaemonCompleted("Ok")
    \/ DaemonFailed("Ok")
    \/ \E id \in LiveCancelIds : CancelGet(id)
    \/ CancelUpdate
    \/ ClearCompleted

SpecLive == Init /\ [][NextLive]_vars /\ WF_vars(DaemonStep)

\* The same program on a store whose statements may fail.
NextErr ==
    \/ queue_command
    \/ DaemonStart
    \/ \E io \in StorageOutcomes : DaemonDequeue(io)
    \/ DaemonSleep
    \/ \E io \in StorageOutcomes : DaemonMarkRunning(io)
    \/ \E io \in StorageOutcomes : DaemonCompleted(io)
    \/ \E io \in StorageOutcomes : DaemonFailed(io)
    \/ DaemonStop
    \/ \E id \in CancelIds : CancelGet(id)
    \/ CancelUpdate
    \/ ClearCompleted

SpecErr == Init /\ [][NextErr]_vars

\* ------------------------------------- db.rs enqueue, concurrent callers
\* Each caller runs enqueue once, on a clone of the queue.  enqueue computes
\* `id` and `now` before its only await, the INSERT; the callers interleave
\* at that await, and SQLite runs the INSERTs one at a time.
EnqCommands == <<"Task 1", "Task 2", "Task 3", "Task 4", "Task 5">>
EnqCommand(c) == EnqCommands[c]

\* faulty variant of EnqueueStart, to show that C21 tells it from it: the id
\* is the number of stored rows plus one instead of a nanoid
EnqueueStart_counts_rows(c) ==
    /\ callers[c].pc = "idle"
    /\ \E t \in Clock :
         /\ callers' = [callers EXCEPT
                          ![c] = [pc |-> "insert", id |-> Len(tasks) + 1,
                                  now |-> t]]
         /\ now' = t
    /\ nextId' = nextId + 1
    /\ UNCHANGED <<tasks, dpc, dtask, dexit, cpc, cid, everRunning, peeked,
                   transcript, cmd, loop2>>

\* let id = nanoid::nanoid!(8); let now = Utc::now();
EnqueueStart(c) ==
    /\ callers[c].pc = "idle"
    /\ \E t \in Clock :
         /\ callers' = [callers EXCEPT
                          ![c] = [pc |-> "insert", id |-> nextId, now |-> t]]
         /\ now' = t
    /\ nextId' = nextId + 1
    /\ UNCHANGED <<tasks, dpc, dtask, dexit, cpc, cid, everRunning, peeked,
                   transcript, cmd, loop2>>

\* sqlx::query("INSERT INTO tasks ..").execute(&self.pool).await?; Ok(id)
EnqueueInsert(c) ==
    /\ callers[c].pc = "insert"
    /\ tasks' = enqueue(tasks, callers[c].id, EnqCommand(c), None,
                        callers[c].now).rows
    /\ callers' = [callers EXCEPT ![c].pc = "done"]
    /\ UNCHANGED <<now, nextId, dpc, dtask, dexit, cpc, cid, everRunning,
                   peeked, transcript, cmd, loop2>>

NextEnq ==
    \/ \E c \in Callers : EnqueueStart(c)
    \/ \E c \in Callers : EnqueueInsert(c)

SpecEnq == Init /\ [][NextEnq]_vars

\* ------------------------------- main.rs run_daemon, a second process
\* `faster daemon` started a second time on the same database: the same
\* loop, with its own `task`.  The two processes share the table only.
qvars == <<nextId, dpc, dtask, dexit, cpc, cid, callers, transcript, cmd>>

Loop2Start ==
    /\ loop2.pc = "stopped"
    /\ loop2' = [pc |-> "dequeue", task |-> None]
    /\ UNCHANGED <<tasks, now, everRunning, peeked>>
    /\ UNCHANGED qvars

\* queue.dequeue().await?
Loop2Dequeue ==
    /\ loop2.pc = "dequeue"
    /\ \E r \in { dequeue(tasks) } :
           /\ tasks' = r.rows
           /\ loop2' = [pc |-> IF r.value = None THEN "sleep"
                               ELSE "mark_running",
                        task |-> r.value]
    /\ UNCHANGED <<now, everRunning, peeked>>
    /\ UNCHANGED qvars

\* tokio::time::sleep(1s), then the next iteration
Loop2Sleep ==
    /\ loop2.pc = "sleep"
    /\ loop2' = [loop2 EXCEPT !.pc = "dequeue"]
    /\ UNCHANGED <<tasks, now, everRunning, peeked>>
    /\ UNCHANGED qvars

\* queue.update_status(&task.id, TaskStatus::Running).await?
Loop2MarkRunning ==
    /\ loop2.pc = "mark_running"
    /\ \E t \in Clock :
       \E r \in { update_status(tasks, loop2.task[1].id, "Running", t) } :
           /\ now' = t
           /\ tasks' = r.rows
           /\ everRunning' = everRunning \cup RunningIds(r.rows)
    /\ loop2' = [loop2 EXCEPT !.pc = "execute"]
    /\ peeked' = IF peeked # None /\ peeked[1].id = loop2.task[1].id
                 THEN None ELSE peeked
    /\ UNCHANGED qvars

\* executor.execute(..) returned Ok(_): update_status(.., Completed)
Loop2Completed ==
    /\ loop2.pc = "execute"
    /\ \E t \in Clock :
       \E r \in { update_status(tasks, loop2.task[1].id, "Completed", t) } :
           /\ now' = t
           /\ tasks' = r.rows
           /\ everRunning' = everRunning \cup RunningIds(r.rows)
    /\ loop2' = [pc |-> "dequeue", task |-> None]
    /\ UNCHANGED peeked
    /\ UNCHANGED qvars

\* executor.execute(..) returned Err(e): fail(.., e.to_string())
Loop2Failed ==
    /\ loop2.pc = "execute"
    /\ \E t \in Clock :
       \E r \in { fail(tasks, loop2.task[1].id, ExitError, t) } :
           /\ now' = t
           /\ tasks' = r.rows
           /\ everRunning' = everRunning \cup RunningIds(r.rows)
    /\ loop2' = [pc |-> "dequeue", task |-> None]
    /\ UNCHANGED peeked
    /\ UNCHANGED qvars

\* two daemons and the enqueue command
NextTwo ==
    \/ queue_command
    \/ DaemonStart
    \/ DaemonDequeue("Ok")
    \/ DaemonSleep
    \/ DaemonMarkRunning("Ok")
    \/ DaemonCompleted("Ok")
    \/ DaemonFailed("Ok")
    \/ Loop2Start
    \/ Loop2Dequeue
    \/ Loop2Sleep
    \/ Loop2MarkRunning
    \/ Loop2Completed
    \/ Loop2Failed

SpecTwo == Init /\ [][NextTwo]_vars

\* ------------------------------------------ intent/processor.rs: text
\* A str is a sequence of one-character strings.
Whitespace == {" ", "\t", "\n"}
UpperChars == <<"A", "B", "C", "D", "E", "F", "G", "H", "I", "J", "K", "L", "M", "N", "O", "P", "Q", "R", "S", "T", "U", "V", "W", "X", "Y", "Z">>
LowerChars == <<"a", "b", "c", "d", "e", "f", "g", "h", "i", "j", "k", "l", "m", "n", "o", "p", "q", "r", "s", "t", "u", "v", "w", "x", "y", "z">>

\* str::to_lowercase, on the ASCII letters
LowerChar(ch) ==
    IF \E i \in 1..Len(UpperChars) : UpperChars[i] = ch
    THEN LowerChars[CHOOSE i \in 1..Len(UpperChars) : UpperChars[i] = ch]
    ELSE ch

to_lowercase(text) == [ i \in 1..Len(text) |-> LowerChar(text[i]) ]

starts_with(text, p) ==
    Len(p) <= Len(text) /\ SubSeq(text, 1, Len(p)) = p

ends_with(text, p) ==
    Len(p) <= Len(text)
      /\ SubSeq(text, Len(text) - Len(p) + 1, Len(text)) = p

\* str::contains: p occurs somewhere in text
contains(text, p) ==
    \E i \in 1..(Len(text) - Len(p) + 1) : SubSeq(text, i, i + Len(p) - 1) = p

\* str::replace(from, ""): the non-overlapping matches, found from the left,
\* are removed
RECURSIVE replace_with_empty(_, _)
replace_with_empty(text, from) ==
    IF text = <<>> THEN <<>>
    ELSE IF starts_with(text, from)
         THEN replace_with_empty(SubSeq(text, Len(from) + 1, Len(text)), from)
         ELSE <<Head(text)>> \o replace_with_empty(Tail(text), from)

\* str::split_whitespace: the maximal runs of non-whitespace characters
RECURSIVE SplitFrom(_, _, _)
SplitFrom(text, word, words) ==
    IF text = <<>>
    THEN IF word = <<>> THEN words ELSE Append(words, word)
    ELSE IF Head(text) \in Whitespace
         THEN SplitFrom(Tail(text), <<>>,
                        IF word = <<>> THEN words ELSE Append(words, word))
         ELSE SplitFrom(Tail(text), Append(word, Head(text)), words)

split_whitespace(text) == SplitFrom(text, <<>>, <<>>)

\* [&str]::join(sep)
RECURSIVE join(_, _)
join(words, sep) ==
    IF words = <<>> THEN <<>>
    ELSE IF Len(words) = 1 THEN words[1]
    ELSE words[1] \o sep \o join(Tail(words), sep)

\* ---------------------------------- intent/processor.rs: IntentProcessor
OrchestratePatterns ==
    { <<"r", "u", "n">>,
      <<"e", "x", "e", "c", "u", "t", "e">>,
      <<"s", "t", "a", "r", "t">>,
      <<"l", "a", "u", "n", "c", "h">>,
      <<"d", "e", "p", "l", "o", "y">>,
      <<"b", "u", "i", "l", "d">> }
ResearchPatterns ==
    { <<"f", "i", "n", "d">>,
      <<"s", "e", "a", "r", "c", "h">>,
      <<"l", "o", "o", "k">>,
      <<"w", "h", "e", "r", "e">>,
      <<"w", "h", "a", "t">>,
      <<"s", "h", "o", "w">>,
      <<"l", "i", "s", "t">> }
TestPatterns ==
    { <<"t", "e", "s", "t">>,
      <<"d", "e", "b", "u", "g">>,
      <<"f", "i", "x">>,
      <<"c", "h", "e", "c", "k">>,
      <<"v", "e", "r", "i", "f", "y">> }
CodePatterns ==
    { <<"c", "r", "e", "a", "t", "e">>,
      <<"a", "d", "d">>,
      <<"w", "r", "i", "t", "e">>,
      <<"u", "p", "d", "a", "t", "e">>,
      <<"r", "e", "f", "a", "c", "t", "o", "r">>,
      <<"i", "m", "p", "l", "e", "m", "e", "n", "t">>,
      <<"g", "e", "n", "e", "r", "a", "t", "e">> }
UrgencyPatterns ==
    { <<"u", "r", "g", "e", "n", "t">>,
      <<"a", "s", "a", "p">>,
      <<"q", "u", "i", "c", "k">>,
      <<"f", "a", "s", "t">>,
      <<"n", "o", "w">> }
BroadPatterns ==
    { <<"a", "l", "l">>,
      <<"e", "v", "e", "r", "y">>,
      <<"e", "n", "t", "i", "r", "e">>,
      <<"w", "h", "o", "l", "e">> }
NarrowPatterns ==
    { <<"t", "h", "i", "s">>,
      <<"t", "h", "a", "t">>,
      <<"s", "i", "n", "g", "l", "e">>,
      <<"o", "n", "e">> }
filler_words ==
    << <<"u", "m">>,
       <<"u", "h">>,
       <<"l", "i", "k", "e">>,
       <<"y", "o", "u", " ", "k", "n", "o", "w">>,
       <<"a", "c", "t", "u", "a", "l", "l", "y">>,
       <<"b", "a", "s", "i", "c", "a", "l", "l", "y">>,
       <<"j", "u", "s", "t">>,
       <<"p", "l", "e", "a", "s", "e">>,
       <<"c", "a", "n", " ", "y", "o", "u">>,
       <<"c", "o", "u", "l", "d", " ", "y", "o", "u">>,
       <<"i", " ", "w", "a", "n", "t">>,
       <<"i", " ", "n", "e", "e", "d">> >>

contains_any(text, patterns) == \E p \in patterns : contains(text, p)

\* the f32 confidences 0.85 and 0.60, in hundredths
HighConfidence == 85
LowConfidence == 60

\* faulty variant of detect_intent, to show that C24 tells it from it: the
\* Research patterns are tried before the Orchestrate patterns
detect_intent_research_first(text) ==
    IF contains_any(text, ResearchPatterns)
    THEN [intent |-> "Research", confidence |-> HighConfidence]
    ELSE IF contains_any(text, OrchestratePatterns)
    THEN [intent |-> "Orchestrate", confidence |-> HighConfidence]
    ELSE IF contains_any(text, TestPatterns)
    THEN [intent |-> "Test", confidence |-> HighConfidence]
    ELSE IF contains_any(text, CodePatterns)
    THEN [intent |-> "Code", confidence |-> HighConfidence]
    ELSE [intent |-> "Code", confidence |-> LowConfidence]

detect_intent(text) ==
    IF contains_any(text, OrchestratePatterns)
    THEN [intent |-> "Orchestrate", confidence |-> HighConfidence]
    ELSE IF contains_any(text, ResearchPatterns)
    THEN [intent |-> "Research", confidence |-> HighConfidence]
    ELSE IF contains_any(text, TestPatterns)
    THEN [intent |-> "Test", confidence |-> HighConfidence]
    ELSE IF contains_any(text, CodePatterns)
    THEN [intent |-> "Code", confidence |-> HighConfidence]
    ELSE [intent |-> "Code", confidence |-> LowConfidence]

\* the file patterns: the words with a '.' that is not their last character
FileEntities(words) ==
    SelectSeq(words, LAMBDA w : contains(w, <<".">>) /\ ~ends_with(w, <<".">>))

\* faulty variant of CodeEntities, to show that C38 tells it from it: a
\* "for" after the code word is taken as the name
RECURSIVE CodeEntities_takes_for(_, _)
CodeEntities_takes_for(words, i) ==
    IF i > Len(words) THEN <<>>
    ELSE (IF words[i] \in { <<"c", "l", "a", "s", "s">>, <<"f", "u", "n", "c", "t", "i", "o", "n">>, <<"m", "e", "t", "h", "o", "d">> }
             /\ i + 1 <= Len(words)
          THEN <<words[i + 1]>>
          ELSE <<>>)
         \o CodeEntities_takes_for(words, i + 1)

\* the code patterns: the word after class / function / method, or the word
\* after a "for" that follows it
RECURSIVE CodeEntities(_, _)
CodeEntities(words, i) ==
    IF i > Len(words) THEN <<>>
    ELSE (IF words[i] \in { <<"c", "l", "a", "s", "s">>, <<"f", "u", "n", "c", "t", "i", "o", "n">>, <<"m", "e", "t", "h", "o", "d">> }
             /\ i + 1 <= Len(words)
          THEN IF words[i + 1] = <<"f", "o", "r">>
               THEN IF i + 2 <= Len(words) THEN <<words[i + 2]>> ELSE <<>>
               ELSE <<words[i + 1]>>
          ELSE <<>>)
         \o CodeEntities(words, i + 1)

extract_entities(text, intent) ==
    (IF \/ contains(text, <<".", "r", "s">>)
        \/ contains(text, <<".", "p", "h", "p">>)
        \/ contains(text, <<".", "j", "s">>)
     THEN FileEntities(split_whitespace(text)) ELSE <<>>)
    \o (IF intent = "Test" /\ contains(text, <<"u", "n", "i", "t">>)
        THEN << <<"u", "n", "i", "t">> >> ELSE <<>>)
    \o (IF intent = "Test" /\ contains(text, <<"i", "n", "t", "e", "g", "r", "a", "t", "i", "o", "n">>)
        THEN << <<"i", "n", "t", "e", "g", "r", "a", "t", "i", "o", "n">> >>
        ELSE <<>>)
    \o (IF \/ contains(text, <<"c", "l", "a", "s", "s">>)
           \/ contains(text, <<"f", "u", "n", "c", "t", "i", "o", "n">>)
           \/ contains(text, <<"m", "e", "t", "h", "o", "d">>)
        THEN CodeEntities(split_whitespace(text), 1) ELSE <<>>)

\* the loop over filler_words: cleaned = cleaned.replace(filler, "")
RECURSIVE RemoveFillers(_, _)
RemoveFillers(cleaned, i) ==
    IF i > Len(filler_words) THEN cleaned
    ELSE RemoveFillers(replace_with_empty(cleaned, filler_words[i]), i + 1)

\* faulty variant of clean_directive, to show that C25 tells it from it:
\* the extra whitespace is not cleaned
clean_directive_keeps_whitespace(text, intent) == RemoveFillers(text, 1)

clean_directive(text, intent) ==
    join(split_whitespace(RemoveFillers(text, 1)), <<" ">>)

\* faulty variant of build_context, to show that C27 tells it from it: the
\* narrow patterns are tried before the broad patterns
build_context_narrow_first(text) ==
    LET urgency == IF contains_any(text, UrgencyPatterns)
                   THEN {<<"urgency", "high">>} ELSE {}
        scope == IF contains_any(text, NarrowPatterns)
                 THEN {<<"scope", "narrow">>}
                 ELSE IF contains_any(text, BroadPatterns)
                 THEN {<<"scope", "broad">>}
                 ELSE {}
    IN  urgency \cup scope

\* the HashMap, as its set of (key, value) entries
build_context(text) ==
    LET urgency == IF contains_any(text, UrgencyPatterns)
                   THEN {<<"urgency", "high">>} ELSE {}
        scope == IF contains_any(text, BroadPatterns)
                 THEN {<<"scope", "broad">>}
                 ELSE IF contains_any(text, NarrowPatterns)
                 THEN {<<"scope", "narrow">>}
                 ELSE {}
    IN  urgency \cup scope

\* process: Ok(Command { .. }); created_at = Utc::now() is left out
process(text) ==
    LET transcript_lower == to_lowercase(text)
        detected == detect_intent(transcript_lower)
    IN  [ result |-> "Ok",
          value |->
            [ intent |-> detected.intent,
              directive |-> clean_directive(text, detected.intent),
              entities |-> extract_entities(transcript_lower, detected.intent),
              context |-> build_context(transcript_lower),
              confidence |-> detected.confidence ] ]

\* ------------------------------------------------- transcripts processed
\* A transcript is made of at most MaxPieces pieces of speech, each a word
\* with the space after it, or a blank.
MaxPieces == 3
Pieces ==
    { <<"R", "u", "n", " ">>,
      <<"f", "i", "n", "d", " ">>,
      <<"t", "e", "s", "t", " ">>,
      <<"a", "d", "d", " ">>,
      <<"y", "o", "u", " ">>,
      <<"k", "n", "o", "w", " ">>,
      <<"a", "l", "l", " ">>,
      <<"t", "h", "i", "s", " ">>,
      <<"m", "a", "i", "n", ".", "r", "s", " ">>,
      <<"C", "l", "a", "s", "s", " ">>,
      <<"f", "o", "r", " ">>,
      <<" ">> }

RECURSIVE TranscriptsOf(_)
TranscriptsOf(n) ==
    IF n = 0 THEN { <<>> }
    ELSE LET shorter == TranscriptsOf(n - 1)
         IN  shorter \cup { t \o p : t \in shorter, p \in Pieces }

Transcripts == TranscriptsOf(MaxPieces)

InitIntent ==
    /\ StoreInit
    /\ callers = [c \in Callers |-> IdleCaller]
    /\ transcript \in Transcripts
    /\ cmd = None
    /\ loop2 = StoppedLoop

\* let command = processor.process(&transcript)
Process ==
    /\ cmd = None
    /\ \E r \in { process(transcript) } :
         /\ r.result = "Ok"
         /\ cmd' = Some(r.value)
    /\ UNCHANGED <<tasks, now, nextId, dpc, dtask, dexit, cpc, cid,
                   everRunning, peeked, callers, transcript, loop2>>

NextIntent == Process

SpecIntent == InitIntent /\ [][NextIntent]_vars

\* ------------------------------------------------------------ views
\* the tasks in the store, as get / list return them
StoredTasks == { RowToTask(tasks[i]) : i \in 1..Len(tasks) }
QueuedTasks == { t \in StoredTasks : t.status = "Queued" }
TaskById(rows, id) == get(rows, id).value[1]

\* steps of the processes that call the store
DaemonDequeueStep == \E io \in StorageOutcomes : DaemonDequeue(io)
DaemonWriteStep ==
    \E io \in StorageOutcomes :
        DaemonMarkRunning(io) \/ DaemonCompleted(io) \/ DaemonFailed(io)
CancelGetStep == \E id \in CancelIds : CancelGet(id)
CancelUpdateStep == CancelUpdate

\* ------------------------------------------------------------ claims

\* C1: in every reachable store state dequeue() returns a Queued task whose
\* created_at is the smallest among the Queued tasks, and returns nothing
\* exactly when no task is Queued.
C1_DequeueOldestQueued ==
    LET r == dequeue(tasks).value
    IN  /\ (r = None) <=> (QueuedTasks = {})
        /\ r # None =>
             /\ r[1] \in QueuedTasks
             /\ \A u \in QueuedTasks : r[1].created_at <= u.created_at

\* C1 witness: A was enqueued before B and is now Running; dequeue returns
\* B although A's created_at is smaller.
C1_Witness ==
    \E a \in StoredTasks :
        /\ a.status = "Running"
        /\ dequeue(tasks).value # None
        /\ a.created_at < dequeue(tasks).value[1].created_at
        /\ Cardinality(QueuedTasks) >= 1

\* C2: dequeue() is a peek: the call leaves every row unchanged and a second
\* call right after it returns the identical task.
C2_DequeueIsPeek ==
    [][ DaemonDequeue("Ok") =>
          /\ tasks' = tasks
          /\ dequeue(tasks').rows = tasks
          /\ dequeue(tasks').value = dtask' ]_vars

\* C2 witness: the daemon holds a dequeued task and the store still has it,
\* Queued and equal to the copy returned.
C2_Witness ==
    /\ dpc = "mark_running"
    /\ dtask # None
    /\ get(tasks, dtask[1].id).value = dtask
    /\ dtask[1].status = "Queued"

\* C3: every change of a stored task's status is Queued->Running,
\* Running->Completed, Running->Failed or Queued->Cancelled, and every new
\* task starts Queued.
LegalTransitions ==
    { <<"Queued", "Running">>, <<"Running", "Completed">>,
      <<"Running", "Failed">>, <<"Queued", "Cancelled">> }

C3_OnlyLegalTransitions ==
    [][ \A t \in { RowToTask(tasks'[i]) : i \in 1..Len(tasks') } :
          IF t.id \in RowIds(tasks)
          THEN \/ TaskById(tasks, t.id).status = t.status
               \/ <<TaskById(tasks, t.id).status, t.status>> \in LegalTransitions
          ELSE t.status = "Queued" ]_vars

\* C4: Completed, Failed and Cancelled are terminal: a task in one of them
\* keeps its status for as long as it is stored.
TerminalStatuses == {"Completed", "Failed", "Cancelled"}

C4_TerminalIsFinal ==
    [][ \A t \in StoredTasks :
          (t.status \in TerminalStatuses /\ t.id \in RowIds(tasks'))
            => TaskById(tasks', t.id).status = t.status ]_vars

\* C5: a cancel request is accepted only for a Queued task; for a task that
\* is Running, Completed, Failed or Cancelled it is rejected and the task's
\* status, timestamps and error stay as they are.
C5_CancelOnlyQueued ==
    [][ /\ \A id \in RowIds(tasks) :
              (CancelGet(id) /\ TaskById(tasks, id).status # "Queued")
                => cpc' = "idle"
        /\ (CancelUpdateStep /\ cid \in RowIds(tasks)
              /\ TaskById(tasks, cid).status # "Queued") => tasks' = tasks ]_vars

\* C6: update_status and fail called with an id that is not in the store
\* return NotFound and leave the store unchanged.
C6_UnknownIdIsNotFound ==
    [][ /\ (DaemonMarkRunning("Ok") /\ dtask[1].id \notin RowIds(tasks))
              => /\ update_status(tasks, dtask[1].id, "Running", now').result
                      = "NotFound"
                 /\ tasks' = tasks
        /\ (DaemonCompleted("Ok") /\ dtask[1].id \notin RowIds(tasks))
              => /\ update_status(tasks, dtask[1].id, "Completed", now').result
                      = "NotFound"
                 /\ tasks' = tasks
        /\ (DaemonFailed("Ok") /\ dtask[1].id \notin RowIds(tasks))
              => /\ \A e \in ExecErrors :
                      fail(tasks, dtask[1].id, e, now').result = "NotFound"
                 /\ tasks' = tasks
        /\ (CancelUpdateStep /\ cid \notin RowIds(tasks))
              => /\ update_status(tasks, cid, "Cancelled", now').result
                      = "NotFound"
                 /\ tasks' = tasks ]_vars

\* C7: a task's completed_at is set if and only if its status is Completed
\* or Failed.
C7_CompletedAtIffDone ==
    \A t \in StoredTasks :
        (t.completed_at # None) <=> (t.status \in {"Completed", "Failed"})

\* C8: a task's error is set only if its status is Failed.
C8_ErrorOnlyIfFailed ==
    \A t \in StoredTasks : (t.error # None) => (t.status = "Failed")

\* C9: a task's started_at is set if and only if its status has been Running
\* at least once.
C9_StartedAtIffEverRunning ==
    \A t \in StoredTasks : (t.started_at # None) <=> (t.id \in everRunning)

\* C9 witness: one task was cancelled without ever running and has no
\* started_at; another one ran, has left Running and keeps its started_at.
C9_Witness ==
    /\ \E t \in StoredTasks :
         t.status = "Cancelled" /\ t.id \notin everRunning /\ t.started_at = None
    /\ \E t \in StoredTasks :
         t.status \in {"Completed", "Failed"} /\ t.id \in everRunning
           /\ t.started_at # None

\* C10: with one dispatch loop at a time, at most one task is Running.
C10_AtMostOneRunning ==
    Cardinality(RunningIds(tasks)) <= 1

\* C11: enqueue(command, model) adds exactly one task: its id is new, it is
\* Queued, has the given command and model and created_at = now, and no
\* started_at, completed_at or error; the tasks already stored stay as they
\* are; when no other task is Queued, dequeue returns the new task.
NextArgs == EnqueueArgs[((nextId - 1) % Len(EnqueueArgs)) + 1]

C11_EnqueueAddsOneQueuedTask ==
    [][ queue_command =>
          LET new == RowToTask(tasks'[Len(tasks')])
          IN  /\ Len(tasks') = Len(tasks) + 1
              /\ SubSeq(tasks', 1, Len(tasks)) = tasks
              /\ new.id \notin RowIds(tasks)
              /\ new.status = "Queued"
              /\ new.command = NextArgs[1]
              /\ new.model = NextArgs[2]
              /\ new.created_at = now'
              /\ new.started_at = None
              /\ new.completed_at = None
              /\ new.error = None
              /\ (QueuedTasks = {}) => dequeue(tasks').value = Some(new) ]_vars

\* C11 witness: the task enqueued last carries a model override, an earlier
\* task is stored and is not Queued, and dequeue returns the new task.
C11_Witness ==
    /\ Len(tasks) >= 2
    /\ LET new == RowToTask(tasks[Len(tasks)])
       IN  /\ new.id = nextId - 1
           /\ new.status = "Queued"
           /\ new.model = Some("opus")
           /\ QueuedTasks = {new}
           /\ dequeue(tasks).value = Some(new)

\* what update_status(id, s) at reading t may change of a stored task, for
\* each status s
UpdateStatusFrame(id, t) ==
    id \in RowIds(tasks) =>
      \A s \in TaskStatus :
        LET old == TaskById(tasks, id)
            new == TaskById(update_status(tasks, id, s, t).rows, id)
        IN  /\ new.status = s
            /\ new.started_at = IF s = "Running" THEN Some(t) ELSE old.started_at
            /\ new.completed_at = IF s \in {"Completed", "Failed"} THEN Some(t)
                                  ELSE old.completed_at
            /\ new.error = old.error
            /\ new.command = old.command
            /\ new.model = old.model
            /\ new.created_at = old.created_at
            /\ new.id = old.id

\* C12: on a stored task, update_status(id, Running) sets the status and
\* started_at and leaves completed_at; update_status(id, Completed | Failed)
\* sets the status and completed_at and leaves started_at; any other status
\* changes no timestamp; error, command, model and created_at never change.
\* Checked at every update_status call of the daemon and of cancel_task on
\* a stored task: for the call made and for each other status in its place.
C12_UpdateStatusFrame ==
    [][ /\ DaemonMarkRunning("Ok")
              => /\ UpdateStatusFrame(dtask[1].id, now')
                 /\ tasks' = update_status(tasks, dtask[1].id, "Running", now').rows
        /\ DaemonCompleted("Ok")
              => /\ UpdateStatusFrame(dtask[1].id, now')
                 /\ tasks' = update_status(tasks, dtask[1].id, "Completed", now').rows
        /\ CancelUpdate
              => /\ UpdateStatusFrame(cid, now')
                 /\ tasks' = update_status(tasks, cid, "Cancelled", now').rows ]_vars

\* C12 witness: update_status has taken a task to Running and then to
\* Completed at a later reading; started_at is still the earlier one.
C12_Witness ==
    /\ dpc = "dequeue"
    /\ \E x \in StoredTasks :
         /\ x.status = "Completed"
         /\ x.started_at # None /\ x.completed_at # None
         /\ x.started_at[1] < x.completed_at[1]

\* C13: fail(id, e) on a stored task sets status = Failed, completed_at = now
\* and error = e, whatever the status before, and leaves started_at, command,
\* model and created_at; the three are written in one step.  Checked at
\* every fail call of the daemon on a stored task, for each message.
C13_FailWritesAllThree ==
    [][ (DaemonFailed("Ok") /\ dtask[1].id \in RowIds(tasks))
          => LET id == dtask[1].id
                 old == TaskById(tasks, id)
                 now1 == TaskById(tasks', id)
             IN  /\ \A e \in ExecErrors :
                       LET new == TaskById(fail(tasks, id, e, now').rows, id)
                       IN  /\ new.status = "Failed"
                           /\ new.completed_at = Some(now')
                           /\ new.error = Some(e)
                           /\ new.started_at = old.started_at
                           /\ new.command = old.command
                           /\ new.model = old.model
                           /\ new.created_at = old.created_at
                 /\ tasks' = fail(tasks, id, ExitError, now').rows
                 /\ now1.status = "Failed"
                 /\ now1.completed_at = Some(now')
                 /\ now1.error # None ]_vars

\* C13 witness: the daemon has called fail on a stored task; the task is
\* Failed with completed_at and the executor's message.
C13_Witness ==
    /\ dpc = "dequeue"
    /\ \E x \in StoredTasks :
         /\ x.status = "Failed" /\ x.completed_at = Some(now)
         /\ x.error = Some(ExitError) /\ x.started_at # None

\* C14: clear_completed() deletes exactly the Completed and the Cancelled
\* tasks, leaves every Queued, Running and Failed task stored and unchanged,
\* and returns the number of tasks it deleted.
C14_ClearDeletesCompletedAndCancelled ==
    [][ ClearCompleted =>
          LET r == clear_completed(tasks)
              kept == { x \in StoredTasks :
                          x.status \in {"Queued", "Running", "Failed"} }
          IN  /\ { RowToTask(r.rows[i]) : i \in 1..Len(r.rows) } = kept
              /\ Len(r.rows) = Cardinality(kept)
              /\ r.value = Len(tasks) - Len(r.rows)
              /\ r.value = Cardinality(StoredTasks \ kept)
              /\ tasks' = r.rows ]_vars

\* C14 witness: a task has been deleted by clear_completed and a Failed task
\* is still stored.
C14_Witness ==
    /\ Len(tasks) < nextId - 1
    /\ \E x \in StoredTasks : x.status = "Failed"

\* C15: when the executor reports success for the dispatched task, the loop
\* has set it to Running and now sets it to Completed: right afterwards
\* get(id) is Completed, has both timestamps, and started_at is not after
\* completed_at.
C15_SuccessLeavesCompleted ==
    [][ DaemonCompleted("Ok") =>
          LET g == get(tasks', dtask[1].id).value
          IN  /\ g # None
              /\ g[1].status = "Completed"
              /\ g[1].started_at # None /\ g[1].completed_at # None
              /\ g[1].started_at[1] <= g[1].completed_at[1] ]_vars

\* C16: when the executor fails for the dispatched task, the loop calls
\* fail(): right afterwards the task is Failed, has completed_at, and its
\* error is the executor's message.
C16_FailureLeavesFailed ==
    [][ DaemonFailed("Ok") =>
          LET g == get(tasks', dtask[1].id).value
          IN  /\ g # None
              /\ g[1].status = "Failed"
              /\ g[1].completed_at # None
              /\ g[1].error = Some(ExitError) ]_vars

\* C17: an executor failure does not stop the loop: once fail() has
\* returned the loop is back at dequeue, and a dequeue that finds a Queued
\* task goes on to dispatch one.
C17_FailureKeepsLoopRunning ==
    [][ /\ DaemonFailed("Ok") => (dpc' = "dequeue" /\ dexit' = "none")
        /\ (DaemonDequeue("Ok") /\ QueuedTasks # {})
              => (dpc' = "mark_running" /\ dtask' # None
                    /\ dtask'[1] \in QueuedTasks) ]_vars

\* C17 witness: a task has failed and the running loop has dequeued another
\* task after it.
C17_Witness ==
    /\ dpc = "mark_running" /\ dexit = "none"
    /\ \E x \in StoredTasks :
         /\ x.status = "Failed" /\ x.error # None
         /\ dtask[1].id > x.id
         /\ dtask[1] \in QueuedTasks

\* C18: a storage error of dequeue, update_status or fail in the loop ends
\* the loop with that error and changes no row; after it the daemon takes no
\* step (no store call, no executor) until it is started again; the
\* executor is not started when the transition to Running failed.
C18_StorageErrorStopsLoop ==
    [][ /\ ( \/ DaemonDequeue("StorageError")
             \/ DaemonMarkRunning("StorageError")
             \/ DaemonCompleted("StorageError")
             \/ DaemonFailed("StorageError") )
              => (dpc' = "stopped" /\ dexit' = "StorageError" /\ tasks' = tasks)
        /\ DaemonMarkRunning("StorageError") => dpc' # "execute"
        /\ dexit = "StorageError"
              => /\ dpc = "stopped"
                 /\ ~(DaemonDequeueStep \/ DaemonWriteStep \/ DaemonSleep) ]_vars

\* C18 witness: the daemon has returned a storage error and the task it had
\* dequeued is still Queued.
C18_Witness ==
    /\ dpc = "stopped" /\ dexit = "StorageError"
    /\ peeked # None /\ peeked[1] \in QueuedTasks

\* the status of task id: {} when it is not stored
StatusOf(id) == { RowToTask(tasks[i]).status : i \in { j \in 1..Len(tasks) : tasks[j].id = id } }

\* C19: with a daemon that keeps taking its steps, no storage error and
\* every executor run returning, each task that is stored Queued is later
\* Completed or Failed, unless it is cancelled (it is then Cancelled, or
\* deleted by clear_completed).
C19_QueuedTaskFinishes ==
    \A id \in 1..MaxTasks :
        (StatusOf(id) = {"Queued"})
          ~> (StatusOf(id) \subseteq {"Completed", "Failed", "Cancelled"})

\* C19 witness: every task that was enqueued is stored and is Completed or
\* Failed, and both outcomes occur.
C19_Witness ==
    /\ nextId > MaxTasks /\ Len(tasks) = MaxTasks
    /\ \A x \in StoredTasks : x.status \in {"Completed", "Failed"}
    /\ \E x \in StoredTasks : x.status = "Completed"
    /\ \E x \in StoredTasks : x.status = "Failed"

C28_RunningNeverCancelled ==
    [][ \A t \in StoredTasks :
          (t.status = "Running" /\ t.id \in RowIds(tasks'))
            => TaskById(tasks', t.id).status # "Cancelled" ]_vars

\* C29: a task whose status was written as Cancelled is not passed to the
\* executor afterwards: the loop never goes on to the executor with a task
\* that is stored as Cancelled.
C29_CancelledNeverExecuted ==
    [][ (DaemonMarkRunning("Ok") /\ dtask[1].id \in RowIds(tasks))
          => TaskById(tasks, dtask[1].id).status # "Cancelled" ]_vars

\* C30: while the executor runs task T, T is stored with status Running.
C30_ExecutingTaskIsRunning ==
    dpc = "execute"
      => /\ dtask[1].id \in RowIds(tasks)
         /\ TaskById(tasks, dtask[1].id).status = "Running"

\* the anyhow::Result that cancel_task returns to main when no statement
\* fails: Ok(()) on every path, the "Task not found" path included
cancel_task_result(rows, id) ==
    LET r == get(rows, id)
    IN  IF r.value = None THEN "Ok"
        ELSE IF r.value[1].status = "Running" THEN "Ok"
        ELSE update_status(r.rows, id, "Cancelled", 0).result

\* main returns cancel_task's Result: the process exits with 0 on Ok and
\* with 1 on Err
main_exit_code(result) == IF result = "Ok" THEN 0 ELSE 1

\* C22: list() returns every stored task exactly once, newest created_at
\* first, and the task dequeue() returns is the last Queued task of list().
C22_ListIsReverseOfDequeue ==
    LET l == list(tasks).value
        d == dequeue(tasks).value
        queuedAt == { i \in 1..Len(l) : l[i].status = "Queued" }
    IN  /\ Len(l) = Len(tasks)
        /\ \A t \in StoredTasks : Cardinality({ i \in 1..Len(l) : l[i] = t }) = 1
        /\ \A i, j \in 1..Len(l) : i < j => l[i].created_at >= l[j].created_at
        /\ d # None =>
             \E i \in queuedAt : /\ \A j \in queuedAt : j <= i
                                 /\ l[i].id = d[1].id

\* C23: cancel with an id that is not in the store ends with a non-zero exit
\* code and leaves the store unchanged.
C23_CancelUnknownIdFails ==
    \A id \in CancelIds :
        (cpc = "idle" /\ id \notin RowIds(tasks))
          => /\ main_exit_code(cancel_task_result(tasks, id)) # 0
             /\ get(tasks, id).rows = tasks

\* the callers whose enqueue call has returned
DoneCallers == { c \in Callers : callers[c].pc = "done" }

\* C21: after N concurrent enqueue calls have returned, in whatever order
\* their steps were taken, the store holds exactly N tasks, their ids are
\* pairwise distinct, and get of each returned id gives the task with the
\* command of that call.
C21_ConcurrentEnqueueKeepsAll ==
    /\ Len(tasks) = Cardinality(DoneCallers)
    /\ \A i, j \in 1..Len(tasks) : i # j => tasks[i].id # tasks[j].id
    /\ \A c \in DoneCallers :
         LET r == get(tasks, callers[c].id).value
         IN  r # None /\ r[1].command = EnqCommand(c)

\* C21 witness: every call has returned, and a caller that took its id
\* later inserted its row earlier.
C21_Witness ==
    /\ DoneCallers = Callers
    /\ \E i, j \in 1..Len(tasks) : i < j /\ tasks[i].id > tasks[j].id

\* the transcript has no character other than whitespace (it may be empty)
IsBlank(text) == \A i \in 1..Len(text) : text[i] \in Whitespace

\* a pattern of the set occurs in the lowercased transcript
Occurs(patterns) ==
    \E p \in patterns : contains(to_lowercase(transcript), p)

\* C24: the intent of process(t) is the first of Orchestrate, Research,
\* Test, Code that has a keyword occurring in the lowercased transcript, with
\* confidence 0.85; when no keyword occurs it is Code with confidence 0.60.
C24_IntentIsFirstMatchingCategory ==
    cmd # None =>
      LET found == [intent |-> cmd[1].intent, confidence |-> cmd[1].confidence]
      IN  found =
            IF Occurs(OrchestratePatterns)
            THEN [intent |-> "Orchestrate", confidence |-> 85]
            ELSE IF Occurs(ResearchPatterns)
            THEN [intent |-> "Research", confidence |-> 85]
            ELSE IF Occurs(TestPatterns)
            THEN [intent |-> "Test", confidence |-> 85]
            ELSE IF Occurs(CodePatterns)
            THEN [intent |-> "Code", confidence |-> 85]
            ELSE [intent |-> "Code", confidence |-> 60]

\* C24 witness: a processed transcript with an Orchestrate keyword after a
\* Research keyword and a Test keyword; the intent is Orchestrate.
C24_Witness ==
    /\ cmd # None
    /\ transcript = <<"f", "i", "n", "d", " ", "t", "e", "s", "t", " ",
                      "R", "u", "n", " ">>
    /\ cmd[1].intent = "Orchestrate"

\* C25: process returns Ok for every transcript, and for an empty or
\* whitespace-only transcript the Command has intent Code, confidence 0.60,
\* no entities, an empty directive and an empty context.
C25_BlankTranscriptIsDefaultCommand ==
    /\ process(transcript).result = "Ok"
    /\ (cmd # None /\ IsBlank(transcript))
         => cmd[1] = [ intent |-> "Code", directive |-> <<>>,
                       entities |-> <<>>, context |-> {},
                       confidence |-> 60 ]

\* C25 witness: a transcript of blanks only, not empty, has been processed.
C25_Witness ==
    /\ cmd # None
    /\ IsBlank(transcript)
    /\ Len(transcript) >= 2

\* C26: cleaning a cleaned directive again gives the same directive.
C26_CleanDirectiveIsIdempotent ==
    cmd # None
      => clean_directive(cmd[1].directive, cmd[1].intent) = cmd[1].directive

\* C27: the context has scope broad exactly when one of all / every / entire
\* / whole occurs in the lowercased transcript, scope narrow when none of
\* them occurs and one of this / that / single / one does, and no scope
\* otherwise; urgency high exactly when one of urgent / asap / quick / fast /
\* now occurs; and no other entry.
C27_ContextScopeAndUrgency ==
    cmd # None =>
      LET context == cmd[1].context
      IN  /\ <<"scope", "broad">> \in context <=> Occurs(BroadPatterns)
          /\ <<"scope", "narrow">> \in context
               <=> (~Occurs(BroadPatterns) /\ Occurs(NarrowPatterns))
          /\ <<"urgency", "high">> \in context <=> Occurs(UrgencyPatterns)
          /\ context \subseteq { <<"scope", "broad">>, <<"scope", "narrow">>,
                                 <<"urgency", "high">> }

\* C27 witness: a processed transcript in which "this" comes before "all"
\* and nothing urgent occurs; the scope is broad and there is no urgency.
C27_Witness ==
    /\ cmd # None
    /\ transcript = <<"t", "h", "i", "s", " ", "a", "l", "l", " ">>
    /\ cmd[1].context = { <<"scope", "broad">> }

\* texts given to from_str: the five encodings and texts that are none
StatusTexts ==
    { as_str(s) : s \in TaskStatus }
      \cup { "invalid", "", "Queued", "RUNNING", "queued ", "canceled" }

\* C37: from_str(as_str(s)) = Some(s) for each status, as_str is injective,
\* from_str is None on every text that is not one of the five encodings, and
\* the status text of every stored row reads back as the status written.
C37_StatusTextRoundTrips ==
    /\ \A s \in TaskStatus : from_str(as_str(s)) = Some(s)
    /\ \A s, u \in TaskStatus : as_str(s) = as_str(u) => s = u
    /\ \A x \in StatusTexts :
         x \notin { as_str(s) : s \in TaskStatus } => from_str(x) = None
    /\ \A i \in 1..Len(tasks) :
         /\ from_str(tasks[i].status) # None
         /\ as_str(from_str(tasks[i].status)[1]) = tasks[i].status

\* C37 witness: the store holds a row written as Cancelled and a row written
\* as Failed, and both read back.
C37_Witness ==
    /\ \E i \in 1..Len(tasks) : from_str(tasks[i].status) = Some("Cancelled")
    /\ \E i \in 1..Len(tasks) : from_str(tasks[i].status) = Some("Failed")

FixedColumns(row) == <<row.id, row.command, row.model, row.created_at>>

\* C36: a step of the dispatch loop leaves the number and order of the rows
\* as they are, changes no row other than the one of the task it dequeued,
\* and leaves id, command, model and created_at of that row as they are; a
\* row is added only by enqueue and removed only by clear_completed.
C36_LoopWritesOnlyItsTask ==
    [][ /\ (DaemonDequeue("Ok") \/ DaemonMarkRunning("Ok")
              \/ DaemonCompleted("Ok") \/ DaemonFailed("Ok"))
             => /\ Len(tasks') = Len(tasks)
                /\ \A i \in 1..Len(tasks) :
                     /\ FixedColumns(tasks'[i]) = FixedColumns(tasks[i])
                     /\ (dtask = None \/ tasks[i].id # dtask[1].id)
                          => tasks'[i] = tasks[i]
        /\ (RowIds(tasks') \ RowIds(tasks) # {}) => queue_command
        /\ (RowIds(tasks) \ RowIds(tasks') # {}) => ClearCompleted ]_vars

\* C36 witness: the loop has completed the first of two stored tasks and the
\* second is as enqueue wrote it.
C36_Witness ==
    /\ Len(tasks) = 2
    /\ dpc = "dequeue"
    /\ tasks[1].status = as_str("Completed")
    /\ tasks[2].status = as_str("Queued")
    /\ tasks[2].started_at = NULL /\ tasks[2].completed_at = NULL

\* C34: once started_at or completed_at of a stored task is set, no step
\* gives it another value.
C34_StampsSetOnce ==
    [][ \A i \in 1..Len(tasks) : \A j \in 1..Len(tasks') :
          tasks'[j].id = tasks[i].id
            => /\ tasks[i].started_at # NULL
                    => tasks'[j].started_at = tasks[i].started_at
               /\ tasks[i].completed_at # NULL
                    => tasks'[j].completed_at = tasks[i].completed_at ]_vars

C31_BothLoopsDequeueSameTask ==
    [][ (Loop2Dequeue /\ peeked # None) => loop2'.task = peeked ]_vars

\* C31 witness: both loops are running the executor for the same task.
C31_Witness ==
    /\ dpc = "execute"
    /\ loop2.pc = "execute"
    /\ dtask[1].id = loop2.task[1].id

\* the tokens of the lowercased transcript
Tokens == split_whitespace(to_lowercase(transcript))

CodeWords ==
    { <<"c", "l", "a", "s", "s">>,
      <<"f", "u", "n", "c", "t", "i", "o", "n">>,
      <<"m", "e", "t", "h", "o", "d">> }

\* what the token at position i contributes: nothing unless it is a code
\* word; else the token after it, or the one after a "for" that follows it
FollowingToken(i) ==
    IF Tokens[i] \notin CodeWords \/ i = Len(Tokens) THEN <<>>
    ELSE IF Tokens[i + 1] # <<"f", "o", "r">> THEN <<Tokens[i + 1]>>
    ELSE IF i + 2 <= Len(Tokens) THEN <<Tokens[i + 2]>>
    ELSE <<>>

\* the contributions of the first n tokens, in order
RECURSIVE AppendedUpTo(_)
AppendedUpTo(n) ==
    IF n = 0 THEN <<>> ELSE AppendedUpTo(n - 1) \o FollowingToken(n)

\* C38: for each token of the lowercased transcript that is class, function
\* or method, the token after it is appended to the entities, or the token
\* after a "for" that follows it, or nothing when there is no such token;
\* these are the last entities of the Command, in the order of the tokens.
C38_CodeWordEntities ==
    cmd # None =>
      LET expected == AppendedUpTo(Len(Tokens))
          entities == cmd[1].entities
      IN  /\ Len(expected) <= Len(entities)
          /\ SubSeq(entities, Len(entities) - Len(expected) + 1,
                    Len(entities)) = expected

\* C38 witness: "Class for this " has been processed and its only entity is
\* "this".
C38_Witness ==
    /\ cmd # None
    /\ transcript = <<"C", "l", "a", "s", "s", " ", "f", "o", "r", " ",
                      "t", "h", "i", "s", " ">>
    /\ cmd[1].entities = << <<"t", "h", "i", "s">> >>

====
